---- MODULE Spec2Model ----
(***************************************************************************)
(* Verifiable credential registry.                                         *)
(*                                                                         *)
(* The ledger is the pair of contracts CredentialTypeFactory (the catalog  *)
(* of credential types) and CredentialManager (assignments per user and    *)
(* the published Merkle root).  The accumulator is the API server's        *)
(* StandardMerkleTree over (user, credentialTypeId) values, cached in the  *)
(* module variable merkleTree and persisted in merkleTree.json.  The       *)
(* controller's assignCredential runs ledger append -> updateMerkleTree -> *)
(* setMerkleRoot with an await before and after the accumulator update, so *)
(* requests of the single-threaded server interleave at those points.      *)
(***************************************************************************)
EXTENDS Integers, Sequences, FiniteSets, TLC

(***************************************************************************)
(* Bounds of the model                                                     *)
(***************************************************************************)
\* user addresses are 1..NumUsers
NumUsers == 2
\* the catalog holds at most MaxTypes credential types
MaxTypes == 2
\* at most MaxAssign assignments are recorded in the ledger
MaxAssign == 3
\* at most MaxReq assignCredential requests are in progress at once
MaxReq == 2
\* at most MaxPublish setMerkleRoot transactions sent directly succeed
MaxPublish == 2
\* the maxNameLength the factory is deployed with
DeployedMaxNameLength == 2

\* the deployer of CredentialManager: Ownable(msg.sender)
Owner == 0
\* the value of bytes32 merkleRoot before any setMerkleRoot
ZeroRoot == 0
\* merkleTree = null; also: merkleTree.json does not exist
Null == <<>>

Users == 1..NumUsers
Callers == {Owner} \cup Users
\* credential type ids a caller may pass; MaxTypes is never a valid id
IdInputs == 0..MaxTypes
Reqs == 1..MaxReq

\* revert reasons and thrown errors, as in the source
Ok == "ok"
MaxNameLengthZero == "Max name length must be greater than zero"
Unauthorized == "OwnableUnauthorizedAccount"
UnknownCredentialType == "Invalid credential type ID"
DuplicateAssignment == "Credential already assigned"
NameEmpty == "Credential name cannot be empty"
NameTooLong == "Credential name exceeds character limit"
NameNotAscii == "Credential name must be ASCII"
NameTaken == "Credential name must be unique"
TreeNotInitialized == "Merkle tree not initialized."
IndexOutOfBounds == "Index out of bounds"
EntryExists == "Entry already exists in the Merkle tree."
WriteFailed == "writeFileSync failed"
PublishFailed == "setMerkleRoot failed"
InvalidBigNumberish == "invalid BigNumberish string"

\* names a caller may pass to createCredentialType: byte sequences
ValidNameInputs == {<<65 + k>> : k \in 0..(MaxTypes - 1)}
NameInputs ==
  ValidNameInputs
    \cup {<<>>, <<200>>, [k \in 1..(DeployedMaxNameLength + 1) |-> 65]}

\* the names the catalog is exercised with: also a lower-case variant of a
\* valid name, an ASCII name of exactly the maximum length, and a name that is
\* both too long and not ASCII
CatalogNameInputs ==
  NameInputs
    \cup {<<97>>,
          [k \in 1..DeployedMaxNameLength |-> 65],
          [k \in 1..(DeployedMaxNameLength + 1) |-> 200]}

VARIABLES
  maxNameLength,      \* CredentialTypeFactory.maxNameLength
  credentialTypes,    \* CredentialTypeFactory.credentialTypes: Seq of [id, name]
  userCredentials,    \* CredentialManager.userCredentials[user][id]
  userCredentialList, \* CredentialManager.userCredentialList[user]
  merkleRoot,         \* CredentialManager.merkleRoot
  merkleTree,         \* helpers/merkleTree.ts: the cached tree's values, or Null
  merkleTreeJson,     \* the dump written to merkleTree.json, or Null
  pc,                 \* per request slot: where its assignCredential stands
  req,                \* per request slot: [user, credentialTypeId, root]
  err,                \* per request slot: the error the request ended with
  lastTx,             \* the last transaction sent to the contracts directly
  assigned,           \* history: the pairs a successful assignCredential recorded
  clean,              \* history: no request has failed or been aborted so far
  events              \* per event name: the arguments of the events emitted, in order

ledgerVars ==
  <<maxNameLength, credentialTypes, userCredentials, userCredentialList,
    merkleRoot, assigned, events>>
serverVars == <<merkleTree, merkleTreeJson, pc, req, err, clean>>
vars ==
  <<maxNameLength, credentialTypes, userCredentials, userCredentialList,
    merkleRoot, assigned, merkleTree, merkleTreeJson, pc, req, err, clean,
    lastTx, events>>

(***************************************************************************)
(* Hashing.  keccak256 is collision free for the model: the leaf hash is   *)
(* injective in (user, id), the hash of a pair is injective in the         *)
(* unordered pair and never the hash of a leaf.                            *)
(***************************************************************************)
\* keccak256(bytes.concat(keccak256(abi.encode(user, id))))
LeafHash(u, i) == (u - 1) * (MaxTypes + 1) + i + 1

LeafSpace == NumUsers * (MaxTypes + 1)

\* keccak256 of the two hashes in sorted order (commutative)
HashPair(a, b) ==
  LET lo == IF a <= b THEN a ELSE b
      hi == IF a <= b THEN b ELSE a
  IN  LeafSpace + 1 + lo + ((hi * (hi + 1)) \div 2)

\* MerkleProof.processProof
RECURSIVE processProof(_, _)
processProof(proof, computedHash) ==
  IF proof = <<>>
    THEN computedHash
    ELSE processProof(Tail(proof), HashPair(computedHash, Head(proof)))

\* MerkleProof.verify(proof, root, leaf)
MerkleProofVerify(proof, root, leaf) == processProof(proof, leaf) = root

(***************************************************************************)
(* StandardMerkleTree.of(values, ["address", "uint256"])                   *)
(***************************************************************************)
LeafHashes(values) ==
  [k \in DOMAIN values |-> LeafHash(values[k][1], values[k][2])]

\* position (from 0) of value j's hash once the hashes are sorted
Rank(h, j) ==
  Cardinality({m \in DOMAIN h : h[m] < h[j] \/ (h[m] = h[j] /\ m < j)})

SortedLeaves(values) ==
  LET h == LeafHashes(values)
  IN  [k \in DOMAIN h |-> h[CHOOSE j \in DOMAIN h : Rank(h, j) = k - 1]]

\* makeMerkleTree: node k of the array of 2n-1 hashes, leaves at the end in
\* reverse order, node k the hash of its children 2k+1 and 2k+2
RECURSIVE TreeNode(_, _)
TreeNode(hs, k) ==
  IF k >= Len(hs) - 1
    THEN hs[(2 * Len(hs) - 2 - k) + 1]
    ELSE HashPair(TreeNode(hs, 2 * k + 1), TreeNode(hs, 2 * k + 2))

\* tree.root
TreeRoot(values) == TreeNode(SortedLeaves(values), 0)

\* values[valueIndex].treeIndex, valueIndex from 0
TreeIndex(values, valueIndex) ==
  2 * Len(values) - 2 - Rank(LeafHashes(values), valueIndex + 1)

\* core getProof(tree, index): the siblings on the path to the root
RECURSIVE PathProof(_, _)
PathProof(hs, k) ==
  IF k = 0
    THEN <<>>
    ELSE <<TreeNode(hs, IF k % 2 = 1 THEN k + 1 ELSE k - 1)>>
           \o PathProof(hs, (k - 1) \div 2)

\* StandardMerkleTree.getProof(leaf: number): the proof of values[leaf]
TreeGetProof(values, valueIndex) ==
  IF valueIndex < 0 \/ valueIndex >= Len(values)
    THEN [error |-> IndexOutOfBounds, proof |-> <<>>]
    ELSE [error |-> Ok,
          proof |-> PathProof(SortedLeaves(values), TreeIndex(values, valueIndex))]

ValueSet(values) == {values[k] : k \in DOMAIN values}

\* tree.dump(): the array of the 2n-1 node hashes and, in insertion order, each
\* value with the position of its leaf in that array
dump_NewestOnly(values) ==
  LET kept == <<values[Len(values)]>>
  IN  [format |-> "standard-v1",
       tree |-> [k \in 1..(2 * Len(kept) - 1) |-> TreeNode(SortedLeaves(kept), k - 1)],
       values |-> [i \in DOMAIN kept |->
                     [value |-> kept[i], treeIndex |-> TreeIndex(kept, i - 1)]]]

dump(values) ==
  [format |-> "standard-v1",
   tree |-> [k \in 1..(2 * Len(values) - 1) |-> TreeNode(SortedLeaves(values), k - 1)],
   values |-> [i \in DOMAIN values |->
                 [value |-> values[i], treeIndex |-> TreeIndex(values, i - 1)]]]

\* StandardMerkleTree.load(data): the values of the tree it builds
load(data) == [i \in DOMAIN data.values |-> data.values[i].value]

\* the root of the tree load builds: the first hash of the array
loadedRoot(data) == data.tree[1]

\* getProof(index) of the tree load builds: the siblings, in the array, on the
\* path from the leaf of values[index] to the root
RECURSIVE ArrayProof(_, _)
ArrayProof(tree, k) ==
  IF k = 0
    THEN <<>>
    ELSE <<tree[(IF k % 2 = 1 THEN k + 1 ELSE k - 1) + 1]>>
           \o ArrayProof(tree, (k - 1) \div 2)

loadedGetProof(data, valueIndex) ==
  ArrayProof(data.tree, data.values[valueIndex + 1].treeIndex)

(***************************************************************************)
(* The credentialTypeId of a request body is a string.  The ledger call    *)
(* encodes it as uint256 with ethers' getBigInt, which is BigInt(string);   *)
(* updateMerkleTree receives parseInt(string), and the tree encodes the     *)
(* decimal string of that number.  Strings are sequences of characters;    *)
(* the inputs carry no sign and no white space.                            *)
(***************************************************************************)
\* the digits of radix r are the first r of these
Digits ==
  <<"0", "1", "2", "3", "4", "5", "6", "7", "8", "9",
    "a", "b", "c", "d", "e", "f">>

IsDigit(c, radix) == \E k \in 1..radix : Digits[k] = c

DigitValue(c, radix) == (CHOOSE k \in 1..radix : Digits[k] = c) - 1

\* how many leading characters of s are digits of the radix
RECURSIVE DigitPrefixLen(_, _)
DigitPrefixLen(s, radix) ==
  IF s = <<>> \/ ~IsDigit(Head(s), radix)
    THEN 0
    ELSE 1 + DigitPrefixLen(Tail(s), radix)

\* the number a sequence of digits of the radix denotes
RECURSIVE DigitsValue(_, _)
DigitsValue(s, radix) ==
  IF s = <<>>
    THEN 0
    ELSE DigitsValue(SubSeq(s, 1, Len(s) - 1), radix) * radix
           + DigitValue(s[Len(s)], radix)

HasPrefix(s, letters) == Len(s) >= 2 /\ s[1] = "0" /\ s[2] \in letters

\* what parseInt(string) returns when the string starts with no digit
NaN == -1

\* parseInt(string): the longest prefix of digits, base 16 after 0x, else 10
parseInt(s) ==
  LET radix == IF HasPrefix(s, {"x", "X"}) THEN 16 ELSE 10
      body == IF HasPrefix(s, {"x", "X"}) THEN SubSeq(s, 3, Len(s)) ELSE s
      n == DigitPrefixLen(body, radix)
  IN  IF n = 0 THEN NaN ELSE DigitsValue(SubSeq(body, 1, n), radix)

\* ethers getBigInt(string) = BigInt(string): the whole string must be a
\* literal, decimal or with prefix 0x, 0o or 0b; otherwise it throws
getBigInt(s) ==
  LET radix == IF HasPrefix(s, {"x", "X"}) THEN 16
               ELSE IF HasPrefix(s, {"o", "O"}) THEN 8
               ELSE IF HasPrefix(s, {"b", "B"}) THEN 2
               ELSE 10
      body == IF radix = 10 THEN s ELSE SubSeq(s, 3, Len(s))
  IN  IF body = <<>> \/ DigitPrefixLen(body, radix) # Len(body)
        THEN [error |-> InvalidBigNumberish, value |-> 0]
        ELSE [error |-> Ok, value |-> DigitsValue(body, radix)]

\* Number.prototype.toString(): decimal digits, "NaN" for NaN
RECURSIVE toString(_)
toString(n) ==
  IF n = NaN THEN <<"N", "a", "N">>
  ELSE IF n < 10 THEN <<Digits[n + 1]>>
  ELSE toString(n \div 10) \o <<Digits[(n % 10) + 1]>>

\* the credentialTypeId strings a request may carry: the decimal literal of
\* every id, a binary and a hexadecimal literal of 1, and a malformed one
IdLiterals ==
  {toString(i) : i \in IdInputs}
    \cup {<<"0", "b", "1">>, <<"0", "x", "1">>, <<"1", "b">>}

(***************************************************************************)
(* CredentialTypeFactory.sol                                               *)
(***************************************************************************)
\* _isAscii
isAscii_Always(byteStr) == TRUE

isAscii(byteStr) == \A k \in DOMAIN byteStr : byteStr[k] <= 127

\* _isNameTaken
isNameTaken_Never(name) == FALSE

isNameTaken(name) ==
  \E k \in DOMAIN credentialTypes : credentialTypes[k].name = name

\* modifier validCredentialTypeName: Ok, or the reason of the first failing require
validCredentialTypeName_StrictLength(name) ==
  IF ~(Len(name) > 0) THEN NameEmpty
  ELSE IF ~(Len(name) < maxNameLength) THEN NameTooLong
  ELSE IF ~isAscii(name) THEN NameNotAscii
  ELSE IF isNameTaken(name) THEN NameTaken
  ELSE Ok

validCredentialTypeName_AsciiFirst(name) ==
  IF ~(Len(name) > 0) THEN NameEmpty
  ELSE IF ~isAscii(name) THEN NameNotAscii
  ELSE IF ~(Len(name) <= maxNameLength) THEN NameTooLong
  ELSE IF isNameTaken(name) THEN NameTaken
  ELSE Ok

validCredentialTypeName(name) ==
  IF ~(Len(name) > 0) THEN NameEmpty
  ELSE IF ~(Len(name) <= maxNameLength) THEN NameTooLong
  ELSE IF ~isAscii(name) THEN NameNotAscii
  ELSE IF isNameTaken(name) THEN NameTaken
  ELSE Ok

\* getNumberOfCredentialTypes
getNumberOfCredentialTypes == Len(credentialTypes)

\* getCredentialTypes
getCredentialTypes == credentialTypes

\* modifier validCredentiaTypelId
validCredentiaTypelId(id) ==
  IF id < Len(credentialTypes) THEN Ok ELSE UnknownCredentialType

\* getCredentialType(_id): the struct it returns, or the reason it reverts with
getCredentialType_NoBoundsCheck(id) ==
  [error |-> Ok, value |-> [id |-> id, name |-> <<>>]]

getCredentialType(id) ==
  IF validCredentiaTypelId(id) # Ok
    THEN [error |-> validCredentiaTypelId(id), value |-> [id |-> 0, name |-> <<>>]]
    ELSE [error |-> Ok, value |-> credentialTypes[id + 1]]

\* isValidCredentialTypeId, called by CredentialManager.validAssignment
isValidCredentialTypeId(id) == id < Len(credentialTypes)

\* constructor(_maxNameLength): whether the deployment succeeds
constructor_NoCheck(length) == Ok

constructor(length) == IF length > 0 THEN Ok ELSE MaxNameLengthZero

\* getMaxNameLength()
getMaxNameLength == maxNameLength

\* emit Name(args)
Event(name, args) == [name |-> name, args |-> args]

emit(event) == events' = [events EXCEPT ![event.name] = Append(@, event.args)]

\* the events of the two contracts
EventNames == {"CredentialTypeCreated", "CredentialAssigned", "MerkleRootUpdated"}

\* the emitted events of one name, in order: the log filtered by event
EventsNamed(name) == events[name]

\* the state change of CredentialTypeFactory.createCredentialType
factoryCreateEffect_IdFromOne(name) ==
  /\ credentialTypes' =
       Append(credentialTypes, [id |-> Len(credentialTypes) + 1, name |-> name])
  /\ emit(Event("CredentialTypeCreated", <<Len(credentialTypes) + 1, name>>))
  /\ UNCHANGED <<maxNameLength, userCredentials, userCredentialList,
                 merkleRoot, assigned>>

factoryCreateEffect_ResetsRoot(name) ==
  /\ credentialTypes' =
       Append(credentialTypes, [id |-> Len(credentialTypes), name |-> name])
  /\ emit(Event("CredentialTypeCreated", <<Len(credentialTypes), name>>))
  /\ merkleRoot' = ZeroRoot
  /\ UNCHANGED <<maxNameLength, userCredentials, userCredentialList, assigned>>

factoryCreateEffect(name) ==
  /\ credentialTypes' =
       Append(credentialTypes, [id |-> Len(credentialTypes), name |-> name])
  /\ emit(Event("CredentialTypeCreated", <<Len(credentialTypes), name>>))
  /\ UNCHANGED <<maxNameLength, userCredentials, userCredentialList,
                 merkleRoot, assigned>>

(***************************************************************************)
(* CredentialManager.sol                                                   *)
(***************************************************************************)
\* modifier onlyOwner
onlyOwner(caller) == IF caller = Owner THEN Ok ELSE Unauthorized

\* modifier validAssignment
validAssignment_NoDuplicateCheck(user, id) ==
  IF ~isValidCredentialTypeId(id) THEN UnknownCredentialType ELSE Ok

validAssignment_NoTypeCheck(user, id) ==
  IF userCredentials[user][id] THEN DuplicateAssignment ELSE Ok

validAssignment(user, id) ==
  IF ~isValidCredentialTypeId(id) THEN UnknownCredentialType
  ELSE IF userCredentials[user][id] THEN DuplicateAssignment
  ELSE Ok

\* the outcome of createCredentialType(name) sent by caller
createCredentialTypeResult_NameFirst(caller, name) ==
  IF validCredentialTypeName(name) # Ok THEN validCredentialTypeName(name)
  ELSE onlyOwner(caller)

createCredentialTypeResult(caller, name) ==
  IF onlyOwner(caller) # Ok THEN onlyOwner(caller)
  ELSE validCredentialTypeName(name)

\* the outcome of assignCredential(user, id) sent by caller
assignCredentialResult_NoOwnerCheck(caller, user, id) == validAssignment(user, id)

assignCredentialResult(caller, user, id) ==
  IF onlyOwner(caller) # Ok THEN onlyOwner(caller)
  ELSE validAssignment(user, id)

\* the body of assignCredential
assignCredentialEffect_Prepend(user, id) ==
  /\ userCredentials' = [userCredentials EXCEPT ![user][id] = TRUE]
  /\ userCredentialList' =
       [userCredentialList EXCEPT ![user] = <<id>> \o @]
  /\ emit(Event("CredentialAssigned", <<user, id>>))
  /\ assigned' = assigned \cup {<<user, id>>}
  /\ UNCHANGED <<maxNameLength, credentialTypes, merkleRoot>>

assignCredentialEffect_Exclusive(user, id) ==
  /\ userCredentials' =
       [userCredentials EXCEPT ![user] = [i \in IdInputs |-> i = id]]
  /\ userCredentialList' =
       [userCredentialList EXCEPT ![user] = Append(@, id)]
  /\ emit(Event("CredentialAssigned", <<user, id>>))
  /\ assigned' = assigned \cup {<<user, id>>}
  /\ UNCHANGED <<maxNameLength, credentialTypes, merkleRoot>>

assignCredentialEffect_FlagOnly(user, id) ==
  /\ userCredentials' = [userCredentials EXCEPT ![user][id] = TRUE]
  /\ emit(Event("CredentialAssigned", <<user, id>>))
  /\ assigned' = assigned \cup {<<user, id>>}
  /\ UNCHANGED <<maxNameLength, credentialTypes, merkleRoot, userCredentialList>>

assignCredentialEffect(user, id) ==
  /\ userCredentials' = [userCredentials EXCEPT ![user][id] = TRUE]
  /\ userCredentialList' =
       [userCredentialList EXCEPT ![user] = Append(@, id)]
  /\ emit(Event("CredentialAssigned", <<user, id>>))
  /\ assigned' = assigned \cup {<<user, id>>}
  /\ UNCHANGED <<maxNameLength, credentialTypes, merkleRoot>>

\* the body of setMerkleRoot
setMerkleRootEffect_OnlyWhenUnset(root) ==
  /\ merkleRoot' = IF merkleRoot = ZeroRoot THEN root ELSE merkleRoot
  /\ emit(Event("MerkleRootUpdated", <<root>>))
  /\ UNCHANGED <<maxNameLength, credentialTypes, userCredentials,
                 userCredentialList, assigned>>

setMerkleRootEffect_EmitsOldRoot(root) ==
  /\ merkleRoot' = root
  /\ emit(Event("MerkleRootUpdated", <<merkleRoot>>))
  /\ UNCHANGED <<maxNameLength, credentialTypes, userCredentials,
                 userCredentialList, assigned>>

setMerkleRootEffect(root) ==
  /\ merkleRoot' = root
  /\ emit(Event("MerkleRootUpdated", <<root>>))
  /\ UNCHANGED <<maxNameLength, credentialTypes, userCredentials,
                 userCredentialList, assigned>>

\* verifyCredential(user, id, proof)
verifyCredential_NoLedgerCheck(user, id, proof) ==
  MerkleProofVerify(proof, merkleRoot, LeafHash(user, id))

verifyCredential_LedgerOnly(user, id, proof) == userCredentials[user][id]

verifyCredential(user, id, proof) ==
  /\ userCredentials[user][id]
  /\ MerkleProofVerify(proof, merkleRoot, LeafHash(user, id))

\* getUserCredentialsTypes(_user): the array it returns, or the reason the
\* getCredentialType call of its loop reverts with
getUserCredentialsTypes(user) ==
  LET ids == userCredentialList[user]
      numCredentials == Len(ids)
  IN  IF \E i \in 1..numCredentials : getCredentialType(ids[i]).error # Ok
        THEN [error |-> UnknownCredentialType, value |-> <<>>]
        ELSE [error |-> Ok,
              value |-> [i \in 1..numCredentials |-> getCredentialType(ids[i]).value]]

\* AssignmentLedger.has
has(user, id) == userCredentials[user][id]

\* the assignment records of the ledger
LedgerRecords == {p \in Users \X IdInputs : userCredentials[p[1]][p[2]]}

(***************************************************************************)
(* helpers/merkleTree.ts                                                   *)
(***************************************************************************)
\* loadMerkleTree: the tree it returns, which it also caches in merkleTree
loadMerkleTree_AlwaysReads ==
  IF merkleTreeJson # Null THEN load(merkleTreeJson) ELSE merkleTree

loadMerkleTree ==
  IF merkleTreeJson # Null /\ merkleTree = Null
    THEN load(merkleTreeJson)
    ELSE merkleTree

\* the values in merkleTree.json
storedValues == IF merkleTreeJson = Null THEN Null ELSE load(merkleTreeJson)

\* getProof(credentialTypeId)
getProof(credentialTypeId) ==
  IF loadMerkleTree = Null
    THEN [error |-> TreeNotInitialized, proof |-> <<>>]
    ELSE TreeGetProof(loadMerkleTree, credentialTypeId)

\* getMerkleRoot, called on a tree that is loaded
getMerkleRoot(tree) == TreeRoot(tree)

(***************************************************************************)
(* controllers/credentialManagerController.ts                              *)
(***************************************************************************)
\* verifyCredential(userAddress, credentialTypeId): the boolean it returns, or
\* the error it throws
controller_verifyCredential(user, id) ==
  LET p == getProof(id)
  IN  IF p.error # Ok
        THEN [error |-> p.error, isValid |-> FALSE]
        ELSE [error |-> Ok, isValid |-> verifyCredential(user, id, p.proof)]

NoReq == [user |-> 0, credentialTypeId |-> <<>>, root |-> ZeroRoot]
NoTx ==
  [op |-> "none", caller |-> Owner, user |-> 0, id |-> 0, name |-> <<>>,
   root |-> ZeroRoot, result |-> Ok]

\* the state after CredentialTypeFactory is deployed with length as its
\* _maxNameLength, CredentialManager is deployed and the server has started
Deployed(length) ==
  /\ constructor(length) = Ok
  /\ maxNameLength = length
  /\ credentialTypes = <<>>
  /\ userCredentials = [u \in Users |-> [i \in IdInputs |-> FALSE]]
  /\ userCredentialList = [u \in Users |-> <<>>]
  /\ merkleRoot = ZeroRoot
  /\ merkleTree = Null
  /\ merkleTreeJson = Null
  /\ pc = [r \in Reqs |-> "idle"]
  /\ req = [r \in Reqs |-> NoReq]
  /\ err = [r \in Reqs |-> Ok]
  /\ lastTx = NoTx
  /\ assigned = {}
  /\ clean = TRUE
  /\ events = [name \in EventNames |-> <<>>]

Init == Deployed(DeployedMaxNameLength)

\* createCredentialType(credentialTypeName): one transaction sent by the owner
controller_createCredentialType(name) ==
  /\ Len(credentialTypes) < MaxTypes
  /\ IF createCredentialTypeResult(Owner, name) = Ok
       THEN factoryCreateEffect(name)
       ELSE UNCHANGED ledgerVars
  /\ UNCHANGED <<serverVars, lastTx>>

\* assignCredential, up to the first await's completion: the ledger append
\* (line 113).  A string that is no uint256 or a revert ends the request.  The
\* request takes the lowest slot that holds no request in progress.
assignLedgerOutcome(r, user, credentialTypeId, res) ==
  /\ pc' = [pc EXCEPT ![r] = IF res = Ok THEN "update" ELSE "failed"]
  /\ req' = [req EXCEPT ![r] =
               IF res = Ok
                 THEN [user |-> user, credentialTypeId |-> credentialTypeId,
                       root |-> ZeroRoot]
                 ELSE NoReq]
  /\ err' = [err EXCEPT ![r] = res]
  /\ clean' = (clean /\ res = Ok)

controller_assignCredential_ledger(r, user, credentialTypeId) ==
  LET id == getBigInt(credentialTypeId)
      res == IF id.error # Ok
               THEN id.error
               ELSE assignCredentialResult(Owner, user, id.value)
  IN  /\ pc[r] \in {"idle", "done", "failed"}
      /\ \A q \in Reqs : q < r => pc[q] \in {"update", "publish"}
      /\ res = Ok => Cardinality(assigned) < MaxAssign
      /\ IF res = Ok
           THEN assignCredentialEffect(user, id.value)
           ELSE UNCHANGED ledgerVars
      /\ assignLedgerOutcome(r, user, credentialTypeId, res)
      /\ UNCHANGED <<merkleTree, merkleTreeJson, lastTx>>

\* the value updateMerkleTree(user, credentialTypeId) adds: [user,
\* credentialTypeId.toString()], the second encoded as uint256 by the tree
newValueOf(user, credentialTypeId) ==
  <<user, getBigInt(toString(credentialTypeId)).value>>

\* updateMerkleTree(userAddress, parseInt(credentialTypeId)) followed by
\* getMerkleRoot (lines 114-115): synchronous, so one step.  writeOk: whether
\* writeFileSync succeeds.
controller_assignCredential_update_NoExistsCheck(r, writeOk) ==
  LET tree == loadMerkleTree
      credentialTypeId == parseInt(req[r].credentialTypeId)
      newValue == newValueOf(req[r].user, credentialTypeId)
      entryExists == FALSE
      encodable == getBigInt(toString(credentialTypeId)).error = Ok
      newTree == IF tree # Null THEN Append(tree, newValue) ELSE <<newValue>>
  IN  /\ pc[r] = "update"
      /\ IF entryExists \/ ~encodable
           THEN /\ merkleTree' = tree
                /\ merkleTreeJson' = merkleTreeJson
                /\ pc' = [pc EXCEPT ![r] = "failed"]
                /\ err' = [err EXCEPT ![r] =
                             IF entryExists THEN EntryExists ELSE InvalidBigNumberish]
                /\ req' = [req EXCEPT ![r] = NoReq]
                /\ clean' = FALSE
           ELSE /\ merkleTree' = newTree
                /\ IF writeOk
                     THEN /\ merkleTreeJson' = dump(newTree)
                          /\ pc' = [pc EXCEPT ![r] = "publish"]
                          /\ err' = err
                          /\ req' = [req EXCEPT ![r].root = getMerkleRoot(newTree)]
                          /\ clean' = clean
                     ELSE /\ merkleTreeJson' = merkleTreeJson
                          /\ pc' = [pc EXCEPT ![r] = "failed"]
                          /\ err' = [err EXCEPT ![r] = WriteFailed]
                          /\ req' = [req EXCEPT ![r] = NoReq]
                          /\ clean' = FALSE
      /\ UNCHANGED <<ledgerVars, lastTx>>

controller_assignCredential_update(r, writeOk) ==
  LET tree == loadMerkleTree
      credentialTypeId == parseInt(req[r].credentialTypeId)
      newValue == newValueOf(req[r].user, credentialTypeId)
      entryExists == tree # Null /\ newValue \in ValueSet(tree)
      encodable == getBigInt(toString(credentialTypeId)).error = Ok
      newTree == IF tree # Null THEN Append(tree, newValue) ELSE <<newValue>>
  IN  /\ pc[r] = "update"
      /\ IF entryExists \/ ~encodable
           THEN /\ merkleTree' = tree
                /\ merkleTreeJson' = merkleTreeJson
                /\ pc' = [pc EXCEPT ![r] = "failed"]
                /\ err' = [err EXCEPT ![r] =
                             IF entryExists THEN EntryExists ELSE InvalidBigNumberish]
                /\ req' = [req EXCEPT ![r] = NoReq]
                /\ clean' = FALSE
           ELSE /\ merkleTree' = newTree
                /\ IF writeOk
                     THEN /\ merkleTreeJson' = dump(newTree)
                          /\ pc' = [pc EXCEPT ![r] = "publish"]
                          /\ err' = err
                          /\ req' = [req EXCEPT ![r].root = getMerkleRoot(newTree)]
                          /\ clean' = clean
                     ELSE /\ merkleTreeJson' = merkleTreeJson
                          /\ pc' = [pc EXCEPT ![r] = "failed"]
                          /\ err' = [err EXCEPT ![r] = WriteFailed]
                          /\ req' = [req EXCEPT ![r] = NoReq]
                          /\ clean' = FALSE
      /\ UNCHANGED <<ledgerVars, lastTx>>

\* await credentialManager.setMerkleRoot(merkleRoot) (line 116).  txOk: whether
\* the transaction reaches the ledger.
controller_assignCredential_publish(r, txOk) ==
  /\ pc[r] = "publish"
  /\ IF txOk
       THEN /\ setMerkleRootEffect(req[r].root)
            /\ pc' = [pc EXCEPT ![r] = "done"]
            /\ err' = err
            /\ clean' = clean
       ELSE /\ UNCHANGED ledgerVars
            /\ pc' = [pc EXCEPT ![r] = "failed"]
            /\ err' = [err EXCEPT ![r] = PublishFailed]
            /\ clean' = FALSE
  /\ req' = [req EXCEPT ![r] = NoReq]
  /\ UNCHANGED <<merkleTree, merkleTreeJson, lastTx>>

\* POST /assignCredential: the response the route sends when the controller's
\* assignCredential ends with e (Ok: it returned; otherwise what it threw)
AssignFailedMessage ==
  "An internal error occurred while assigning the credential."

route_assignCredential_response(e) ==
  IF e = Ok
    THEN [status |-> 201, success |-> TRUE, error |-> ""]
    ELSE [status |-> 500, success |-> FALSE, error |-> AssignFailedMessage]

\* a reader's verifyCredential request: getProof caches the tree it loads
controller_verifyCredential_load ==
  /\ merkleTree' = loadMerkleTree
  /\ UNCHANGED <<ledgerVars, merkleTreeJson, pc, req, err, clean, lastTx>>

\* the server process stops and starts again: the module variable merkleTree is
\* null again and the requests in progress are gone
Restart ==
  /\ merkleTree' = Null
  /\ pc' = [r \in Reqs |-> "idle"]
  /\ req' = [r \in Reqs |-> NoReq]
  /\ err' = [r \in Reqs |-> Ok]
  /\ clean' = (clean /\ \A r \in Reqs : pc[r] \notin {"update", "publish"})
  /\ UNCHANGED <<ledgerVars, merkleTreeJson, lastTx>>

Next ==
  \/ \E name \in NameInputs : controller_createCredentialType(name)
  \/ \E r \in Reqs, user \in Users, credentialTypeId \in IdLiterals :
       controller_assignCredential_ledger(r, user, credentialTypeId)
  \/ \E r \in Reqs, writeOk \in BOOLEAN :
       controller_assignCredential_update(r, writeOk)
  \/ \E r \in Reqs, txOk \in BOOLEAN :
       controller_assignCredential_publish(r, txOk)
  \/ controller_verifyCredential_load
  \/ Restart

Spec == Init /\ [][Next]_vars

(***************************************************************************)
(* The contracts called directly, by any account                           *)
(***************************************************************************)
\* the trees whose roots and proofs callers pass in
TreeInputs ==
  { <<<<1, 0>>>>,
    <<<<1, 0>>, <<2, 0>>>>,
    <<<<2, 1>>, <<1, 0>>, <<1, 1>>>> }

RootInputs == {ZeroRoot} \cup {TreeRoot(t) : t \in TreeInputs}

ProofInputs ==
  {<<>>, <<LeafHash(1, 0)>>}
    \cup {TreeGetProof(t, k).proof : t \in TreeInputs, k \in 0..2}

Tx(op, caller, user, id, name, root, result) ==
  [op |-> op, caller |-> caller, user |-> user, id |-> id, name |-> name,
   root |-> root, result |-> result]

\* CredentialTypeFactory.createCredentialType(name), which has no onlyOwner
factory_createCredentialType(caller, name) ==
  LET res == validCredentialTypeName(name)
  IN  /\ res = Ok => Len(credentialTypes) < MaxTypes
      /\ IF res = Ok THEN factoryCreateEffect(name) ELSE UNCHANGED ledgerVars
      /\ lastTx' = Tx("factory.createCredentialType", caller, 0, 0, name, ZeroRoot, res)
      /\ UNCHANGED serverVars

\* CredentialManager.createCredentialType(name)
createCredentialType(caller, name) ==
  LET res == createCredentialTypeResult(caller, name)
  IN  /\ res = Ok => Len(credentialTypes) < MaxTypes
      /\ IF res = Ok THEN factoryCreateEffect(name) ELSE UNCHANGED ledgerVars
      /\ lastTx' = Tx("createCredentialType", caller, 0, 0, name, ZeroRoot, res)
      /\ UNCHANGED serverVars

\* CredentialManager.assignCredential(user, id)
assignCredential_PushBeforeCheck(caller, user, id) ==
  LET res == assignCredentialResult(caller, user, id)
  IN  /\ res = Ok => Cardinality(assigned) < MaxAssign
      /\ IF res \in {Ok, DuplicateAssignment}
           THEN assignCredentialEffect(user, id)
           ELSE UNCHANGED ledgerVars
      /\ lastTx' = Tx("assignCredential", caller, user, id, <<>>, ZeroRoot, res)
      /\ UNCHANGED serverVars

assignCredential(caller, user, id) ==
  LET res == assignCredentialResult(caller, user, id)
  IN  /\ res = Ok => Cardinality(assigned) < MaxAssign
      /\ IF res = Ok
           THEN assignCredentialEffect(user, id)
           ELSE UNCHANGED ledgerVars
      /\ lastTx' = Tx("assignCredential", caller, user, id, <<>>, ZeroRoot, res)
      /\ UNCHANGED serverVars

\* CredentialManager.setMerkleRoot(root)
setMerkleRoot(caller, root) ==
  LET res == onlyOwner(caller)
  IN  /\ res = Ok => Len(EventsNamed("MerkleRootUpdated")) < MaxPublish
      /\ IF res = Ok THEN setMerkleRootEffect(root) ELSE UNCHANGED ledgerVars
      /\ lastTx' = Tx("setMerkleRoot", caller, 0, 0, <<>>, root, res)
      /\ UNCHANGED serverVars

NextLedger ==
  \/ \E caller \in Callers, name \in NameInputs :
       factory_createCredentialType(caller, name)
  \/ \E caller \in Callers, name \in NameInputs :
       createCredentialType(caller, name)
  \/ \E caller \in Callers, user \in Users, id \in IdInputs :
       assignCredential(caller, user, id)
  \/ \E caller \in Callers, root \in RootInputs : setMerkleRoot(caller, root)

LedgerSpec == Init /\ [][NextLedger]_vars

\* the _maxNameLength values a deployment is tried with
DeployInputs == 0..(DeployedMaxNameLength + 1)

\* the contracts after any deployment that succeeds
InitDeployment == \E length \in DeployInputs : Deployed(length)

DeploymentSpec == InitDeployment /\ [][NextLedger]_vars

\* the catalog alone: the two entry points that append to it, with the
\* catalog's names
NextCatalog ==
  \/ \E caller \in Callers, name \in CatalogNameInputs :
       factory_createCredentialType(caller, name)
  \/ \E caller \in Callers, name \in CatalogNameInputs :
       createCredentialType(caller, name)

CatalogSpec == Init /\ [][NextCatalog]_vars

(***************************************************************************)
(* Notions the properties use                                              *)
(***************************************************************************)
\* request r has appended to the ledger and has not finished its sync
InFlight(r) == pc[r] \in {"update", "publish"}

\* the accumulator that issues proofs
Accumulator == loadMerkleTree

NoDuplicates(list) ==
  \A j, k \in DOMAIN list : j # k => list[j] # list[k]

\* the accumulator holds the ledger's records and its root is the published one
Synced ==
  /\ \A r \in Reqs : ~InFlight(r)
  /\ Accumulator # Null
  /\ ValueSet(Accumulator) = LedgerRecords
  /\ merkleRoot = TreeRoot(Accumulator)

\* the record is in the ledger, in no accumulator state, and no request that
\* would add it is in progress
Stuck(user, id) ==
  /\ has(user, id)
  /\ <<user, id>> \notin ValueSet(merkleTree) \cup ValueSet(storedValues)
  /\ \A r \in Reqs :
       ~(pc[r] = "update" /\ req[r].user = user
           /\ parseInt(req[r].credentialTypeId) = id)

\* the literals the ledger and updateMerkleTree read as different ids
Misparsed ==
  {lit \in IdLiterals :
     getBigInt(lit).error = Ok /\ getBigInt(lit).value # parseInt(lit)}

\* once a record is stuck it stays stuck, unless a literal read as another id
\* by the ledger is parsed as this record's id: no operation of the server
\* adds the leaf of a record that is already in the ledger
StuckIsForever ==
  [][\A user \in Users, id \in IdInputs :
       (Stuck(user, id) /\ \A lit \in Misparsed : parseInt(lit) # id)
         => Stuck(user, id)']_vars

\* the root of the tree StandardMerkleTree.of builds over a set of values,
\* which does not depend on their order
RootOver(S) ==
  TreeRoot(CHOOSE q \in [1..Cardinality(S) -> S] :
             \A j, k \in 1..Cardinality(S) : j # k => q[j] # q[k])

\* setMerkleRoot sent by another account than the owner is rejected and
\* leaves the root as it was
SetMerkleRootOnlyOwner ==
  [][(lastTx'.op = "setMerkleRoot" /\ lastTx'.caller # Owner)
       => /\ lastTx'.result = Unauthorized
          /\ merkleRoot' = merkleRoot]_vars

\* the last transaction is a createCredentialType, sent to either contract
IsCreate(tx) ==
  tx.op \in {"createCredentialType", "factory.createCredentialType"}

\* the reasons validCredentialTypeName reverts with: the spec's NameInvalid
NameInvalid == {NameEmpty, NameTooLong, NameNotAscii, NameTaken}

\* the proofs a caller may hold: the proof inputs and what getProof returns
ProofsAtHand == ProofInputs \cup {getProof(k).proof : k \in IdInputs}

\* a proof that verified a record stops verifying it when the published root
\* changes
StaleProofRejected ==
  [][\A p \in LedgerRecords, proof \in ProofsAtHand :
       (verifyCredential(p[1], p[2], proof) /\ merkleRoot' # merkleRoot)
         => ~verifyCredential(p[1], p[2], proof)']_vars

\* what assignCredential ends with when the ledger rejects the assignment
LedgerRejections ==
  {Unauthorized, UnknownCredentialType, DuplicateAssignment, InvalidBigNumberish}

\* request r fails in a sync step, after its ledger append
SyncFails(r) == InFlight(r) /\ pc'[r] = "failed"

\* a failure of a sync step leaves the request's record in the ledger
SyncFailureKeepsRecord ==
  [][\A r \in Reqs :
       SyncFails(r)
         => userCredentials'[req[r].user][getBigInt(req[r].credentialTypeId).value]]_vars

\* the tree read back from merkleTree.json is the tree in memory: same values,
\* same root, same proof for every value
RoundTrips(tree, data) ==
  /\ tree # Null /\ data # Null
  /\ load(data) = tree
  /\ loadedRoot(data) = getMerkleRoot(tree)
  /\ \A i \in 0..(Len(tree) - 1) :
       loadedGetProof(data, i) = TreeGetProof(tree, i).proof

\* the assignments committed to the ledger, in the order of their commits
LedgerOrder == EventsNamed("CredentialAssigned")

\* the mutating functions of CredentialManager
ManagerOps == {"createCredentialType", "assignCredential", "setMerkleRoot"}

\* request r's assignCredential is rejected by the ledger
LedgerRejects(r) ==
  pc[r] \notin {"update", "publish"} /\ pc'[r] = "failed"
    /\ (err'[r] # err[r] \/ pc'[r] # pc[r]) /\ err'[r] \in LedgerRejections

\* a request the ledger rejects leaves the ledger and the accumulator, in
\* memory and in its file, as they were
LedgerRejectionLeavesAccumulator ==
  [][\A r \in Reqs :
       LedgerRejects(r) => UNCHANGED <<ledgerVars, merkleTree, merkleTreeJson>>]_vars

\* the ids of the CredentialAssigned events of a log that name the user
AssignedTo(log, user) ==
  LET mine == SelectSeq(log, LAMBDA args : args[1] = user)
  IN  [k \in DOMAIN mine |-> mine[k][2]]

\* the log agrees with the state of the contracts: one CredentialTypeCreated
\* per catalog entry, each user's CredentialAssigned events are the user's
\* list, the last MerkleRootUpdated carries the published root
LogMirrorsLedger(log, types, lists, root) ==
  /\ log["CredentialTypeCreated"] =
       [k \in DOMAIN types |-> <<types[k].id, types[k].name>>]
  /\ \A user \in Users : AssignedTo(log["CredentialAssigned"], user) = lists[user]
  /\ IF log["MerkleRootUpdated"] = <<>>
       THEN root = ZeroRoot
       ELSE log["MerkleRootUpdated"][Len(log["MerkleRootUpdated"])] = <<root>>

\* request r's updateMerkleTree runs in this step
UpdateStep(r) == pc[r] = "update" /\ pc'[r] \in {"publish", "failed"}

\* request r's updateMerkleTree runs in this step and returns
UpdateSucceeds(r) == pc[r] = "update" /\ pc'[r] = "publish"

(***************************************************************************)
(* Properties                                                              *)
(***************************************************************************)

(* C1: verifyCredential(user, id, proof) returns true only if the ledger holds
   the assignment and the proof validates the leaf of (user, id) against the
   published root; for a pair that was never assigned it returns false for
   every proof and every published root. *)
C1_VerificationSoundness ==
  \A user \in Users, id \in IdInputs, proof \in ProofInputs :
    verifyCredential(user, id, proof) =>
      /\ <<user, id>> \in assigned
      /\ has(user, id)
      /\ processProof(proof, LeafHash(user, id)) = merkleRoot

\* a state where one assigned pair verifies and the published root also has a
\* valid proof for a pair that was never assigned
C1_Witness ==
  /\ \E user \in Users, id \in IdInputs, proof \in ProofInputs :
       verifyCredential(user, id, proof)
  /\ \E user \in Users, id \in IdInputs, proof \in ProofInputs :
       /\ <<user, id>> \notin assigned
       /\ MerkleProofVerify(proof, merkleRoot, LeafHash(user, id))

(* C2: once the accumulator has been rebuilt over the ledger's records and its
   root published, for every record (user, id) of the ledger the proof
   getProof returns, passed to verifyCredential with (user, id), yields true. *)
C2_RoundTrip ==
  Synced =>
    \A p \in LedgerRecords :
      controller_verifyCredential(p[1], p[2]) = [error |-> Ok, isValid |-> TRUE]

(* C3: getProof for (user, id) returns the inclusion proof of the leaf of
   exactly that pair whenever the pair is in the accumulator, and fails with an
   error when the accumulator is not built or does not contain the pair. *)
C3_GetProofOfPair ==
  \A user \in Users, id \in IdInputs :
    IF Accumulator # Null /\ <<user, id>> \in ValueSet(Accumulator)
      THEN /\ getProof(id).error = Ok
           /\ processProof(getProof(id).proof, LeafHash(user, id))
                = TreeRoot(Accumulator)
      ELSE getProof(id).error # Ok

(* C4: in every state where every started assignCredential request has
   completed successfully, the accumulator's values are exactly the ledger's
   records and the published root is the accumulator's root. *)
C4_SyncCompleteness ==
  (clean /\ \A r \in Reqs : ~InFlight(r)) =>
    /\ ValueSet(Accumulator) = LedgerRecords
    /\ Accumulator # Null => merkleRoot = TreeRoot(Accumulator)

(* C5: in every reachable state, also after a failed or aborted request, every
   value of the accumulator, in memory or in its file, is an assignment of the
   ledger. *)
C5_NoPhantomLeaf ==
  \A v \in ValueSet(merkleTree) \cup ValueSet(storedValues) :
    /\ v \in Users \X IdInputs
    /\ has(v[1], v[2])

(* C6: at every point where a reader can run, the root of the accumulator that
   issues proofs equals the published root. *)
C6_NeverOutOfSync ==
  Accumulator # Null => TreeRoot(Accumulator) = merkleRoot

(* C7: every assignment recorded in the ledger eventually becomes verifiable:
   after a failure or a stop the sync is retried or recovered, so no record of
   the ledger is left without a leaf and without a request that will add it. *)
C7_SyncedOrRecovering ==
  \A user \in Users, id \in IdInputs : ~Stuck(user, id)

(* C8: no two assignment sequences interleave: at most one request is between
   its ledger append and the end of its root publication. *)
C8_MutualExclusion ==
  Cardinality({r \in Reqs : InFlight(r)}) <= 1

(* C9: after a successful assignCredential(u, i), has(u, i) is true and every
   later assignCredential(u, i) fails (with DuplicateAssignment when sent by
   the authority) and records nothing; no user holds a type twice. *)
C9_NoDuplicateAssignment ==
  /\ [](/\ \A p \in assigned : has(p[1], p[2])
        /\ \A user \in Users : NoDuplicates(userCredentialList[user])
        /\ (lastTx.op = "assignCredential" /\ lastTx.result = Ok)
             => has(lastTx.user, lastTx.id))
  /\ [][(/\ lastTx'.op = "assignCredential"
         /\ <<lastTx'.user, lastTx'.id>> \in assigned)
          => /\ lastTx'.result # Ok
             /\ lastTx'.caller = Owner => lastTx'.result = DuplicateAssignment
             /\ UNCHANGED ledgerVars]_vars

\* the authority's second assignCredential of a pair has just been rejected
C9_Witness ==
  /\ lastTx.op = "assignCredential"
  /\ lastTx.caller = Owner
  /\ lastTx.result = DuplicateAssignment
  /\ has(lastTx.user, lastTx.id)

(* C10: assignCredential with an id that is not below the catalog size fails
   (with UnknownCredentialType when sent by the authority) and records
   nothing; every stored id references an existing credential type. *)
C10_OnlyExistingTypes ==
  /\ [](/\ \A user \in Users :
             \A k \in DOMAIN userCredentialList[user] :
               userCredentialList[user][k] < getNumberOfCredentialTypes
        /\ \A p \in LedgerRecords : p[2] < getNumberOfCredentialTypes)
  /\ [][(/\ lastTx'.op = "assignCredential"
         /\ lastTx'.id >= getNumberOfCredentialTypes)
          => /\ lastTx'.result # Ok
             /\ lastTx'.caller = Owner => lastTx'.result = UnknownCredentialType
             /\ UNCHANGED ledgerVars]_vars

\* the authority's assignCredential of an id the catalog does not hold has just
\* been rejected, with types in the catalog and assignments in the ledger
C10_Witness ==
  /\ lastTx.op = "assignCredential"
  /\ lastTx.caller = Owner
  /\ lastTx.result = UnknownCredentialType
  /\ lastTx.id >= getNumberOfCredentialTypes
  /\ getNumberOfCredentialTypes > 0
  /\ assigned # {}

(* C11: through CredentialManager.createCredentialType and through
   CredentialTypeFactory.createCredentialType, a call by any identity other
   than the authority fails with Unauthorized and adds no type to the
   catalog. *)
C11_OnlyAuthorityCreatesTypes ==
  [][(/\ lastTx'.op \in {"createCredentialType", "factory.createCredentialType"}
      /\ lastTx'.caller # Owner)
       => /\ lastTx'.result = Unauthorized
          /\ credentialTypes' = credentialTypes]_vars

(* C12: assignCredential called by any identity other than the authority
   fails with Unauthorized, for every user and id, also when the caller
   assigns to itself, and changes nothing; every assignment record is created
   by a call of the authority. *)
C12_OnlyAuthorityAssigns ==
  [][/\ (lastTx'.op = "assignCredential" /\ lastTx'.caller # Owner)
         => /\ lastTx'.result = Unauthorized
            /\ UNCHANGED ledgerVars
     /\ (userCredentials' # userCredentials
           \/ userCredentialList' # userCredentialList)
         => /\ lastTx'.op = "assignCredential"
            /\ lastTx'.caller = Owner]_vars

\* a user's assignCredential to itself, of an existing type it does not hold,
\* has just been rejected
C12_Witness ==
  /\ lastTx.op = "assignCredential"
  /\ lastTx.caller \in Users
  /\ lastTx.caller = lastTx.user
  /\ lastTx.result = Unauthorized
  /\ isValidCredentialTypeId(lastTx.id)
  /\ ~has(lastTx.user, lastTx.id)

(* C13: the published root is mutated only by the authority's sync step: in
   every reachable state of the server the published root is either unset or
   the root the accumulator computes over records of the ledger. *)
C13_RootOverLedgerRecords ==
  \/ merkleRoot = ZeroRoot
  \/ \E S \in SUBSET LedgerRecords : S # {} /\ merkleRoot = RootOver(S)

(* C14: the catalog entry at position i has id i; every successful create
   appends one entry with the next id and the created name, and a failed
   create leaves the catalog as it was, so n creations of distinct valid names
   yield ids 0..n-1 in creation order, which is the order getCredentialTypes
   returns; getNumberOfCredentialTypes is the number of entries. *)
C14_DenseIds ==
  /\ [](/\ \A k \in DOMAIN getCredentialTypes :
              getCredentialTypes[k].id = k - 1
        /\ getNumberOfCredentialTypes = Len(getCredentialTypes))
  /\ [][IsCreate(lastTx') =>
          IF lastTx'.result = Ok
            THEN getCredentialTypes' =
                   Append(getCredentialTypes,
                          [id |-> getNumberOfCredentialTypes,
                           name |-> lastTx'.name])
            ELSE getCredentialTypes' = getCredentialTypes]_vars

\* the catalog is full after a successful create
C14_Witness ==
  /\ IsCreate(lastTx)
  /\ lastTx.result = Ok
  /\ getNumberOfCredentialTypes = MaxTypes
  /\ getCredentialTypes[MaxTypes].name = lastTx.name

(* C15: all names of the catalog are pairwise distinct under exact,
   case-sensitive comparison; a create with a name the catalog already holds
   fails and adds nothing, with the reason name taken whenever the call gets
   past the owner check. *)
C15_NameUniqueness ==
  /\ [](\A j, k \in DOMAIN credentialTypes :
           j # k => credentialTypes[j].name # credentialTypes[k].name)
  /\ [][(/\ IsCreate(lastTx')
         /\ \E k \in DOMAIN credentialTypes :
              credentialTypes[k].name = lastTx'.name)
          => /\ lastTx'.result # Ok
             /\ lastTx'.result # Unauthorized => lastTx'.result = NameTaken
             /\ credentialTypes' = credentialTypes]_vars

\* a create with a name of the catalog has just been rejected as taken, in a
\* catalog that holds two names differing only in case
C15_Witness ==
  /\ IsCreate(lastTx)
  /\ lastTx.result = NameTaken
  /\ \E k \in DOMAIN credentialTypes : credentialTypes[k].name = lastTx.name
  /\ \E j, k \in DOMAIN credentialTypes :
       /\ credentialTypes[j].name = <<65>>
       /\ credentialTypes[k].name = <<97>>

(* C16: every name of the catalog is non-empty, consists of bytes <= 127 and
   is at most maxNameLength bytes long; a create with an empty name, a name
   with a byte > 127 of whatever length, or a name longer than maxNameLength
   fails with a name validation reason and adds nothing. *)
C16_NameWellFormed ==
  /\ [](\A k \in DOMAIN credentialTypes :
          LET name == credentialTypes[k].name
          IN  /\ Len(name) > 0
              /\ \A j \in DOMAIN name : name[j] <= 127
              /\ Len(name) <= maxNameLength)
  /\ [][(/\ IsCreate(lastTx')
         /\ \/ lastTx'.name = <<>>
            \/ \E j \in DOMAIN lastTx'.name : lastTx'.name[j] > 127
            \/ Len(lastTx'.name) > maxNameLength)
          => /\ lastTx'.result # Ok
             /\ lastTx'.result # Unauthorized => lastTx'.result \in NameInvalid
             /\ credentialTypes' = credentialTypes]_vars

\* a name that is both too long and not ASCII has just been rejected by the
\* name validation, with types in the catalog
C16_Witness ==
  /\ IsCreate(lastTx)
  /\ lastTx.result \in NameInvalid
  /\ Len(lastTx.name) > maxNameLength
  /\ \E j \in DOMAIN lastTx.name : lastTx.name[j] > 127
  /\ credentialTypes # <<>>

(* C17: for an ASCII name that is not in the catalog, a create that gets past
   the owner check succeeds when the name is exactly maxNameLength bytes long
   and fails with the length reason when it is maxNameLength + 1 bytes long. *)
C17_LengthBoundary ==
  [][(/\ IsCreate(lastTx')
      /\ lastTx'.result # Unauthorized
      /\ \A j \in DOMAIN lastTx'.name : lastTx'.name[j] <= 127
      /\ \A k \in DOMAIN credentialTypes :
           credentialTypes[k].name # lastTx'.name)
       => /\ Len(lastTx'.name) = maxNameLength
               => /\ lastTx'.result = Ok
                  /\ Len(credentialTypes') = Len(credentialTypes) + 1
                  /\ credentialTypes'[Len(credentialTypes')].name = lastTx'.name
          /\ Len(lastTx'.name) = maxNameLength + 1
               => /\ lastTx'.result = NameTooLong
                  /\ credentialTypes' = credentialTypes]_vars

\* an ASCII name of maxNameLength + 1 bytes has just been rejected, in a
\* catalog that holds a name of exactly maxNameLength bytes
C17_Witness ==
  /\ IsCreate(lastTx)
  /\ lastTx.result = NameTooLong
  /\ Len(lastTx.name) = maxNameLength + 1
  /\ \A j \in DOMAIN lastTx.name : lastTx.name[j] <= 127
  /\ \E k \in DOMAIN credentialTypes :
       Len(credentialTypes[k].name) = maxNameLength

(* C18: name validation reports the first failing check in the order
   non-empty, ASCII-only, length <= maxNameLength, not already in the catalog;
   a name that is both non-ASCII and too long is rejected with the ASCII
   reason. *)
C18_OrderAsciiBeforeLength ==
  [][(IsCreate(lastTx') /\ lastTx'.result \in NameInvalid)
       => LET name == lastTx'.name
          IN  lastTx'.result =
                IF name = <<>> THEN NameEmpty
                ELSE IF \E j \in DOMAIN name : name[j] > 127 THEN NameNotAscii
                ELSE IF Len(name) > maxNameLength THEN NameTooLong
                ELSE NameTaken]_vars

(* C18, as the code has it: name validation reports the first failing check
   in the order non-empty, length <= maxNameLength, ASCII-only, not already in
   the catalog; a name that is both non-ASCII and too long is rejected with
   the length reason. *)
C18_OrderLengthBeforeAscii ==
  [][(IsCreate(lastTx') /\ lastTx'.result # Unauthorized)
       => LET name == lastTx'.name
          IN  lastTx'.result =
                IF name = <<>> THEN NameEmpty
                ELSE IF Len(name) > maxNameLength THEN NameTooLong
                ELSE IF \E j \in DOMAIN name : name[j] > 127 THEN NameNotAscii
                ELSE IF \E k \in DOMAIN credentialTypes :
                          credentialTypes[k].name = name
                  THEN NameTaken
                ELSE Ok]_vars

\* a name that is both too long and not ASCII has just been rejected with the
\* length reason
C18_Witness ==
  /\ IsCreate(lastTx)
  /\ Len(lastTx.name) > maxNameLength
  /\ \E j \in DOMAIN lastTx.name : lastTx.name[j] > 127
  /\ lastTx.result = NameTooLong

(* C19: getCredentialType(id) returns the entry {id, name} created with that
   id when id is below the number of credential types and fails with the
   unknown credential type reason otherwise; the id exists exactly when it is
   below that number. *)
C19_Lookup ==
  /\ [](\A id \in IdInputs :
          /\ IF id < getNumberOfCredentialTypes
               THEN /\ getCredentialType(id).error = Ok
                    /\ getCredentialType(id).value.id = id
                    /\ getCredentialType(id).value = getCredentialTypes[id + 1]
               ELSE getCredentialType(id).error = UnknownCredentialType
          /\ isValidCredentialTypeId(id) <=> id < getNumberOfCredentialTypes)
  /\ [][/\ \A id \in IdInputs :
             id < getNumberOfCredentialTypes
               => getCredentialType(id)' = getCredentialType(id)
        /\ \A id \in IdInputs :
             (/\ IsCreate(lastTx')
              /\ lastTx'.result = Ok
              /\ id = getNumberOfCredentialTypes)
               => getCredentialType(id)' =
                    [error |-> Ok,
                     value |-> [id |-> id, name |-> lastTx'.name]]]_vars

\* after a create, the first id is found and the id equal to the number of
\* types is not
C19_Witness ==
  /\ IsCreate(lastTx)
  /\ lastTx.result = Ok
  /\ getCredentialType(0).error = Ok
  /\ getCredentialType(getNumberOfCredentialTypes - 1).value.name = lastTx.name
  /\ getCredentialType(getNumberOfCredentialTypes).error = UnknownCredentialType

(* C20: getUserCredentialsTypes(user) returns exactly the credential types
   successfully assigned to the user, in the order they were assigned, each
   as its {id, name} catalog entry: it is empty before any assignment, a
   successful assignment to the user appends the assigned type's entry, no
   other call changes it, and its length is the number of successful
   assignments to the user. *)
C20_UserCredentialTypes ==
  /\ [](\A user \in Users :
          LET types == getUserCredentialsTypes(user)
          IN  /\ types.error = Ok
              /\ Len(types.value) = Cardinality({p \in assigned : p[1] = user})
              /\ \A k \in DOMAIN types.value :
                   /\ <<user, types.value[k].id>> \in assigned
                   /\ types.value[k] = getCredentialTypes[types.value[k].id + 1])
  /\ [][\A user \in Users :
          IF /\ lastTx'.op = "assignCredential"
             /\ lastTx'.result = Ok
             /\ lastTx'.user = user
            THEN getUserCredentialsTypes(user)' =
                   [error |-> Ok,
                    value |-> Append(getUserCredentialsTypes(user).value,
                                     [id |-> lastTx'.id,
                                      name |-> credentialTypes[lastTx'.id + 1].name])]
            ELSE getUserCredentialsTypes(user)' = getUserCredentialsTypes(user)]_vars

\* one user holds type 1 and then type 0, in that order, and another user
\* holds a different number of types
C20_Witness ==
  \E user, other \in Users :
    /\ user # other
    /\ Len(getUserCredentialsTypes(user).value) = 2
    /\ getUserCredentialsTypes(user).value[1].id = 1
    /\ getUserCredentialsTypes(user).value[2].id = 0
    /\ Len(getUserCredentialsTypes(other).value) = 1

(* C21: while no root has been published the published root is unset, and
   with an unset root verifyCredential returns false for every user, id and
   proof, also when the assignment is in the ledger and the proof is a valid
   inclusion proof of its leaf in some tree. *)
C21_NoRootNoVerification ==
  /\ merkleRoot = ZeroRoot
  /\ [][merkleRoot' # merkleRoot
         => (lastTx'.op = "setMerkleRoot" /\ lastTx'.result = Ok)]_vars
  /\ [](merkleRoot = ZeroRoot
         => \A user \in Users, id \in IdInputs, proof \in ProofInputs :
              ~verifyCredential(user, id, proof))

\* no root is published, an assignment is in the ledger, and a proof input is
\* a valid inclusion proof of its leaf in one of the trees
C21_Witness ==
  /\ merkleRoot = ZeroRoot
  /\ \E p \in LedgerRecords, proof \in ProofInputs, t \in TreeInputs :
       /\ proof # <<>>
       /\ p \in ValueSet(t)
       /\ MerkleProofVerify(proof, TreeRoot(t), LeafHash(p[1], p[2]))

(* C22: a proof of an assigned record captured under one published root is
   rejected by verifyCredential after a later assignment of another pair has
   changed the published root to the root of the accumulator over the
   ledger's records, while the proof fetched after that assignment verifies
   the same record. *)
C22_StaleRejectedFreshAccepted ==
  [][\A r \in Reqs, p \in LedgerRecords, proof \in ProofsAtHand :
       (/\ pc[r] = "publish"
        /\ pc'[r] = "done"
        /\ Synced'
        /\ merkleRoot' # merkleRoot
        /\ verifyCredential(p[1], p[2], proof)
        /\ p # <<req[r].user, parseInt(req[r].credentialTypeId)>>
        /\ p # <<req[r].user, getBigInt(req[r].credentialTypeId).value>>)
         => /\ ~verifyCredential(p[1], p[2], proof)'
            /\ controller_verifyCredential(p[1], p[2])'
                 = [error |-> Ok, isValid |-> TRUE]]_vars

(* C23: the verification the server exposes, getProof followed by the
   ledger's verifyCredential, never fails with an error: for every (user, id)
   it yields a boolean, which is false when the record is not assigned, when
   the accumulator is not initialized and when the accumulator has no leaf
   for the pair. *)
C23_VerificationNeverThrows ==
  \A user \in Users, id \in IdInputs :
    LET v == controller_verifyCredential(user, id)
    IN  /\ v.error = Ok
        /\ (\/ ~has(user, id)
            \/ Accumulator = Null
            \/ <<user, id>> \notin ValueSet(Accumulator))
             => ~v.isValid

(* C24: the rebuild, persist and publish of the accumulator can start from
   any state and re-derives the full record list of the ledger: whenever the
   server completes it (the sync steps of assignCredential, the only ones it
   has) with no other request in progress, the accumulator holds exactly the
   ledger's records and its root is the published root, so that repeating it
   changes neither. *)
C24_SyncRederivesLedger ==
  [][\A r \in Reqs :
       (/\ pc[r] = "publish"
        /\ pc'[r] = "done"
        /\ \A q \in Reqs : ~InFlight(q)')
         => /\ Accumulator' # Null
            /\ ValueSet(Accumulator)' = LedgerRecords'
            /\ merkleRoot' = TreeRoot(Accumulator)']_vars

(* C25: a failure to save the accumulator during an assignment's sync is not
   partially applied: the accumulator readers get proofs from, in memory and
   in its file, and the published root stay as they were before the sync
   attempt. *)
C25_WriteFailureNotApplied ==
  [][\A r \in Reqs :
       (pc[r] = "update" /\ pc'[r] = "failed" /\ err'[r] = WriteFailed)
         => /\ Accumulator' = Accumulator
            /\ merkleTreeJson' = merkleTreeJson
            /\ merkleRoot' = merkleRoot]_vars

(* C26: when a sync step fails after the ledger append of an assignment, the
   ledger record is not rolled back and the caller receives an outcome that
   differs from that of an assignment the ledger rejected. *)
C26_SyncFailureDistinguishable ==
  [][\A r \in Reqs :
       SyncFails(r)
         => /\ userCredentials'[req[r].user][getBigInt(req[r].credentialTypeId).value]
            /\ \A e \in LedgerRejections :
                 route_assignCredential_response(err'[r])
                   # route_assignCredential_response(e)]_vars

(* C27: after every successful update of the accumulator the file holds all
   its values, with the same root and the same proofs; and when the process
   restarts with no update having failed, the tree loaded from the file has
   the values and the root the tree in memory had before the restart. *)
C27_PersistLoadRoundTrip ==
  [][/\ (\E r \in Reqs : pc[r] = "update" /\ pc'[r] = "publish")
         => \A tree \in {merkleTree'}, data \in {merkleTreeJson'} :
              RoundTrips(tree, data)
     /\ (clean /\ merkleTree # Null /\ merkleTree' = Null)
         => \A before \in {merkleTree}, after \in {loadMerkleTree'} :
              /\ after = before
              /\ getMerkleRoot(after) = getMerkleRoot(before)
              /\ \A i \in 0..(Len(before) - 1) :
                   TreeGetProof(after, i) = TreeGetProof(before, i)]_vars

C27_Witness ==
  /\ clean
  /\ merkleTree = Null
  /\ merkleTreeJson # Null
  /\ Len(load(merkleTreeJson)) >= 2

(* C28: every successful setMerkleRoot(r) leaves the published root equal to
   r, whatever it was before; when r was the published root already, the
   transaction changes neither the catalog nor the assignments nor the root,
   and no result of verifyCredential. *)
C28_PublishIsIdempotentSet ==
  [][\A root \in RootInputs :
       (/\ lastTx'.op = "setMerkleRoot" /\ lastTx'.result = Ok
        /\ lastTx'.root = root)
         => /\ merkleRoot' = root
            /\ merkleRoot = root
                 => /\ UNCHANGED <<credentialTypes, userCredentials,
                                  userCredentialList, merkleRoot>>
                    /\ \A user \in Users, id \in IdInputs, proof \in ProofInputs :
                         verifyCredential(user, id, proof)'
                           = verifyCredential(user, id, proof)]_vars

\* the owner published a root over a record of the ledger, and did so when a
\* root had been published before
C28_Witness ==
  /\ lastTx.op = "setMerkleRoot" /\ lastTx.result = Ok
  /\ merkleRoot = lastTx.root /\ merkleRoot # ZeroRoot
  /\ \E p \in LedgerRecords, proof \in ProofInputs :
       verifyCredential(p[1], p[2], proof)

(* C29: no operation updates or removes an entry of the catalog (each keeps
   its position, id and name), and no operation makes has(user, id) false
   once it is true. *)
C29_AppendOnlyHistory ==
  [][/\ \A k \in DOMAIN credentialTypes :
          /\ k \in DOMAIN credentialTypes'
          /\ credentialTypes'[k] = credentialTypes[k]
     /\ \A user \in Users, id \in IdInputs :
          has(user, id) => has(user, id)']_vars

\* two types are in the catalog and a user holds both: the first type and the
\* first assignment have lived through later creations and assignments
C29_Witness ==
  /\ Len(credentialTypes) >= 2
  /\ \E user \in Users : has(user, 0) /\ has(user, 1)
  /\ merkleRoot # ZeroRoot

(* C30: a deployment with _maxNameLength = 0 fails; after any deployment that
   succeeds, getMaxNameLength() is greater than zero in every state and no
   operation changes it, so it returns the value the constructor was given. *)
C30_MaxNameLengthFixedPositive ==
  /\ constructor(0) # Ok
  /\ getMaxNameLength \in DeployInputs
  /\ [](getMaxNameLength > 0)
  /\ [][getMaxNameLength' = getMaxNameLength]_vars

\* a factory deployed with a limit above the usual one has accepted a name of
\* that length, and transactions have followed
C30_Witness ==
  /\ getMaxNameLength = DeployedMaxNameLength + 1
  /\ \E k \in DOMAIN credentialTypes :
       Len(credentialTypes[k].name) = getMaxNameLength
  /\ lastTx.op = "setMerkleRoot"

(* C31: under any interleaving of requests, the values of the accumulator
   that are assignments of the ledger stand in the accumulator in the order
   in which the ledger committed them. *)
C31_AccumulatorOrderIsLedgerOrder ==
  \A tree \in {Accumulator}, log \in {LedgerOrder} :
    \A j, k \in DOMAIN tree :
      j < k => \A a, b \in DOMAIN log :
                 (log[a] = tree[j] /\ log[b] = tree[k]) => a < b

(* C32: when every assignCredential request so far has completed without
   error and none is in progress, the published root is the root of the
   accumulator, whatever the interleaving of the requests was. *)
C32_LastComputedRootWins ==
  (/\ clean
   /\ \A r \in Reqs : pc[r] \in {"idle", "done"}
   /\ Accumulator # Null)
    => merkleRoot = TreeRoot(Accumulator)

(* C33: a createCredentialType, assignCredential or setMerkleRoot sent to
   CredentialManager by another account than the owner is rejected with
   Unauthorized whatever its other arguments are, never with a reason that
   comes from checking the name, the type id or the pair. *)
C33_AuthorizationFirst ==
  [][(/\ lastTx' # lastTx
      /\ lastTx'.op \in ManagerOps
      /\ lastTx'.caller # Owner)
       => /\ lastTx'.result = Unauthorized
          /\ lastTx'.result \notin
               NameInvalid \cup {UnknownCredentialType, DuplicateAssignment}]_vars

\* a user's createCredentialType with a name that is taken has just been
\* rejected as unauthorized, and that user already holds a credential
C33_Witness ==
  /\ lastTx.op = "createCredentialType"
  /\ lastTx.caller \in Users
  /\ validCredentialTypeName(lastTx.name) = NameTaken
  /\ lastTx.result = Unauthorized
  /\ \E id \in IdInputs : has(lastTx.caller, id)

(* C34: a createCredentialType, assignCredential or setMerkleRoot that is
   rejected, for whatever reason and by whichever contract, leaves the
   catalog, every user's index and list, the published root and the event
   log as they were before the call. *)
C34_RejectionChangesNothing ==
  [][(lastTx' # lastTx /\ lastTx'.result # Ok)
       => /\ lastTx'.result \in
               NameInvalid \cup {Unauthorized, UnknownCredentialType, DuplicateAssignment}
          /\ credentialTypes' = credentialTypes
          /\ userCredentials' = userCredentials
          /\ userCredentialList' = userCredentialList
          /\ merkleRoot' = merkleRoot
          /\ events' = events]_vars

\* the owner's assignment of a pair that is already recorded has just been
\* rejected, with events of every kind in the log
C34_Witness ==
  /\ lastTx.op = "assignCredential"
  /\ lastTx.result = DuplicateAssignment
  /\ \A name \in EventNames : EventsNamed(name) # <<>>

(* C35: a successful createCredentialType appends one entry to the catalog
   and leaves the assignments and the published root as they were; a
   successful assignCredential(u, i) sets u's flag for i, appends i to u's
   list and leaves the catalog, the root and every other user's records as
   they were; a successful setMerkleRoot leaves the catalog and the
   assignments as they were. *)
C35_FrameOfEachOperation ==
  [][/\ (IsCreate(lastTx') /\ lastTx'.result = Ok)
         => /\ Len(credentialTypes') = Len(credentialTypes) + 1
            /\ SubSeq(credentialTypes', 1, Len(credentialTypes)) = credentialTypes
            /\ UNCHANGED <<userCredentials, userCredentialList, merkleRoot>>
     /\ (lastTx'.op = "assignCredential" /\ lastTx'.result = Ok)
         => /\ UNCHANGED <<credentialTypes, merkleRoot>>
            /\ userCredentials' =
                 [userCredentials EXCEPT ![lastTx'.user][lastTx'.id] = TRUE]
            /\ userCredentialList' =
                 [userCredentialList EXCEPT ![lastTx'.user] = Append(@, lastTx'.id)]
     /\ (lastTx'.op = "setMerkleRoot" /\ lastTx'.result = Ok)
         => UNCHANGED <<credentialTypes, userCredentials, userCredentialList>>]_vars

\* a type has just been created while a root is published and both users hold
\* credentials
C35_Witness ==
  /\ IsCreate(lastTx) /\ lastTx.result = Ok
  /\ merkleRoot # ZeroRoot
  /\ \A user \in Users : userCredentialList[user] # <<>>

(* C36: in every reachable state, for every user and id, the user's flag for
   the id is true exactly when the id occurs in the user's list, and no id
   occurs in a list twice. *)
C36_IndexAgreesWithList ==
  \A user \in Users :
    /\ \A id \in IdInputs :
         userCredentials[user][id]
           <=> \E k \in DOMAIN userCredentialList[user] :
                 userCredentialList[user][k] = id
    /\ NoDuplicates(userCredentialList[user])

\* one user holds two types, assigned in the order 1, 0, and the other holds
\* one of them
C36_Witness ==
  \E user, other \in Users :
    /\ userCredentialList[user] = <<1, 0>>
    /\ Len(userCredentialList[other]) = 1

(* C37: the values of the accumulator, in memory and in its file, are
   pairwise distinct in every reachable state; an updateMerkleTree for a pair
   the accumulator already holds fails with "Entry already exists in the
   Merkle tree." and leaves the accumulator and the file as they were. *)
C37_AccumulatorValuesDistinct ==
  [][/\ NoDuplicates(merkleTree') /\ NoDuplicates(storedValues')
     /\ \A r \in Reqs :
          (/\ pc[r] = "update" /\ pc'[r] \in {"publish", "failed"}
           /\ newValueOf(req[r].user, parseInt(req[r].credentialTypeId))
                 \in ValueSet(Accumulator))
            => /\ pc'[r] = "failed" /\ err'[r] = EntryExists
               /\ Accumulator' = Accumulator
               /\ merkleTreeJson' = merkleTreeJson]_vars

\* an update for a pair the accumulator holds has just failed, and the
\* accumulator holds two values
C37_Witness ==
  /\ \E r \in Reqs : pc[r] = "failed" /\ err[r] = EntryExists
  /\ Accumulator # Null /\ Len(Accumulator) = 2

(* C38: every successful createCredentialType emits exactly one
   CredentialTypeCreated(id, name) with the id just assigned, every
   successful assignCredential exactly one CredentialAssigned(user, id),
   every successful setMerkleRoot(r) exactly one MerkleRootUpdated(r), and
   nothing else is emitted; so in every state the log has one creation event
   per catalog entry, each user's assignment events are the user's list and
   the last MerkleRootUpdated carries the published root. *)
C38_EventLogMirrorsLedger ==
  [][/\ (IsCreate(lastTx') /\ lastTx'.result = Ok)
         => events' = [events EXCEPT !["CredentialTypeCreated"] =
                         Append(@, <<credentialTypes'[Len(credentialTypes')].id,
                                     lastTx'.name>>)]
     /\ (lastTx'.op = "assignCredential" /\ lastTx'.result = Ok)
         => events' = [events EXCEPT !["CredentialAssigned"] =
                         Append(@, <<lastTx'.user, lastTx'.id>>)]
     /\ (lastTx'.op = "setMerkleRoot" /\ lastTx'.result = Ok)
         => events' = [events EXCEPT !["MerkleRootUpdated"] =
                         Append(@, <<lastTx'.root>>)]
     /\ \A log \in {events'}, types \in {credentialTypes'},
          lists \in {userCredentialList'}, root \in {merkleRoot'} :
          LogMirrorsLedger(log, types, lists, root)]_vars

\* two roots have been published one after the other, two types created and
\* both users assigned credentials
C38_Witness ==
  /\ Len(EventsNamed("MerkleRootUpdated")) = 2
  /\ EventsNamed("MerkleRootUpdated")[1] # EventsNamed("MerkleRootUpdated")[2]
  /\ Len(EventsNamed("CredentialTypeCreated")) = 2
  /\ \A user \in Users : AssignedTo(EventsNamed("CredentialAssigned"), user) # <<>>

(* C39: after every updateMerkleTree that returns, the tree in memory and
   the file hold the same values, and the root the request reads next is the
   root of that tree; between updates a tree in memory is never replaced,
   whatever the file holds, so getProof and getMerkleRoot answer from it; the
   file is read only when no tree is in memory. *)
C39_CacheCoherence ==
  [][\A mem \in {merkleTree}, mem2 \in {merkleTree'}, file \in {storedValues},
       file2 \in {storedValues'}, acc2 \in {Accumulator'} :
       /\ \A r \in Reqs :
            UpdateSucceeds(r)
              => /\ mem2 # Null /\ file2 = mem2
                 /\ req'[r].root = getMerkleRoot(mem2)
       /\ (mem # Null /\ mem2 # Null /\ \A r \in Reqs : ~UpdateStep(r))
            => mem2 = mem /\ acc2 = mem
       /\ (mem = Null /\ mem2 # Null /\ \A r \in Reqs : ~UpdateStep(r))
            => mem2 = file]_vars

\* a write of the file failed, a later update succeeded, and memory and file
\* hold the same two values again
C39_Witness ==
  /\ \E r \in Reqs : pc[r] = "publish"
  /\ \E q \in Reqs : err[q] = WriteFailed
  /\ merkleTree # Null /\ Len(merkleTree) = 2
  /\ storedValues = merkleTree

====
